---- MODULE Spec2Model ----
(***************************************************************************)
(* Model of src/ethereum/utils/hexadecimal.py: the conversions from        *)
(* hexadecimal text to bytes and unsigned integers.                        *)
(*                                                                         *)
(* A Python str is a sequence of one-character strings, a bytes object a   *)
(* sequence of numbers in 0..255.  A Python int is unbounded, so it is     *)
(* kept as a sign and a magnitude written in base 16, most significant     *)
(* digit first and without leading zeros (zero is the empty sequence):     *)
(* the values handled here reach 16^66, far beyond the model checker's     *)
(* machine integers.                                                       *)
(*                                                                         *)
(* A call either returns a value or raises; an outcome is the record       *)
(* [exc, at, val]: exc is "none" or the Python exception type, at the      *)
(* callee that raised it, val the value returned.                          *)
(***************************************************************************)
EXTENDS Integers, Sequences, FiniteSets, TLC

VARIABLES hex_string, arg, called, depth, result

vars == <<hex_string, arg, called, depth, result>>

(***************************************************************************)
(* Bounds of the explored inputs.                                          *)
(***************************************************************************)
\* Longest arbitrary string over Alphabet (short inputs).
MaxLen == 3
\* Longest arbitrary tail appended to a long run of digits (long inputs).
MaxTail == 1

\* The characters inputs are made of: hexadecimal digits of both cases,
\* the prefix letters, and the characters Python's parsers treat specially.
Alphabet == {"0", "a", "F", "g", "x", "X", " ", "_", "+", "-"}

\* The digit a long run is made of.
FillDigits == {"0", "a"}

(***************************************************************************)
(* Outcomes.                                                               *)
(***************************************************************************)
Ok(v) == [exc |-> "none", at |-> "", val |-> v]

Raise(e, where) == [exc |-> e, at |-> where, val |-> <<>>]

Raised(r) == r.exc # "none"

(***************************************************************************)
(* Python built-ins the module calls.                                      *)
(***************************************************************************)
LowerDigits == <<"0", "1", "2", "3", "4", "5", "6", "7", "8", "9",
                 "a", "b", "c", "d", "e", "f">>

UpperDigits == <<"0", "1", "2", "3", "4", "5", "6", "7", "8", "9",
                 "A", "B", "C", "D", "E", "F">>

\* Value of a character as a digit; 37 for a character that is no digit
\* of base 16 (the letters g-z are digits of larger bases only).
digitvalue(c) ==
    IF \E i \in 1..16 : LowerDigits[i] = c
    THEN (CHOOSE i \in 1..16 : LowerDigits[i] = c) - 1
    ELSE IF \E i \in 1..16 : UpperDigits[i] = c
    THEN (CHOOSE i \in 1..16 : UpperDigits[i] = c) - 1
    ELSE 37

\* ASCII whitespace.
isspace(c) == c \in {" ", "\t", "\n", "\r", "\f"}

\* str.startswith
startswith(s, p) == Len(s) >= Len(p) /\ SubSeq(s, 1, Len(p)) = p

\* s[n:]
slice_from(s, n) == SubSeq(s, n + 1, Len(s))

\* A variant of rjust that pads on the right, as str.ljust does.
rjust_pads_right(s, width, fillchar) ==
    IF Len(s) >= width THEN s
    ELSE s \o [i \in 1..(width - Len(s)) |-> fillchar]

\* str.rjust(width, fillchar): s itself when it is already width long.
rjust(s, width, fillchar) ==
    IF Len(s) >= width THEN s
    ELSE [i \in 1..(width - Len(s)) |-> fillchar] \o s

\* bytes.fromhex: the string is read as pairs of digits; whitespace is
\* skipped before a pair, never between the two digits of one; any other
\* character, or a digit left without its pair, raises.
fromhex(s) ==
    LET digits    == SelectSeq(s, LAMBDA c : ~isspace(c))
        before(i) == Len(SelectSeq(SubSeq(s, 1, i - 1), LAMBDA c : ~isspace(c)))
        well      == /\ \A i \in 1..Len(digits) : digitvalue(digits[i]) < 16
                     /\ Len(digits) % 2 = 0
                     /\ \A i \in 1..Len(s) : isspace(s[i]) => before(i) % 2 = 0
    IN  IF well
        THEN Ok([j \in 1..(Len(digits) \div 2) |->
                    16 * digitvalue(digits[2 * j - 1]) + digitvalue(digits[2 * j])])
        ELSE Raise("ValueError", "bytes.fromhex")

\* The character at position i, or "" (the terminator) past the end.
char_at(s, i) == IF i >= 1 /\ i <= Len(s) THEN s[i] ELSE ""

\* First position from i on that holds no whitespace.
skip_spaces(s, i) ==
    CHOOSE k \in i..(Len(s) + 1) :
        /\ \A j \in i..(k - 1) : isspace(s[j])
        /\ ~isspace(char_at(s, k))

\* First position from i on that holds neither a base-16 digit nor "_".
scan_digits(s, i) ==
    CHOOSE k \in i..(Len(s) + 1) :
        /\ \A j \in i..(k - 1) : digitvalue(s[j]) < 16 \/ s[j] = "_"
        /\ ~(digitvalue(char_at(s, k)) < 16 \/ char_at(s, k) = "_")

\* A magnitude without its leading zero digits.
normalize(m) ==
    LET zeros == CHOOSE z \in 0..Len(m) :
                    /\ \A j \in 1..z : m[j] = 0
                    /\ (z < Len(m) => m[z + 1] # 0)
    IN  SubSeq(m, zeros + 1, Len(m))

\* The digit values of the characters of s that are not "_".
digit_values(s) ==
    LET ds == SelectSeq(s, LAMBDA c : c # "_")
    IN  [i \in 1..Len(ds) |-> digitvalue(ds[i])]

\* int(s, 16): optional surrounding whitespace, an optional sign, an optional
\* "0x" or "0X" (after which one "_" may stand), then at least one digit,
\* with single "_" allowed between digits.
int16(s) ==
    LET i0    == skip_spaces(s, 1)
        neg   == char_at(s, i0) = "-"
        i1    == IF char_at(s, i0) \in {"+", "-"} THEN i0 + 1 ELSE i0
        pre   == char_at(s, i1) = "0" /\ char_at(s, i1 + 1) \in {"x", "X"}
        i2    == IF pre THEN i1 + 2 ELSE i1
        start == IF pre /\ char_at(s, i2) = "_" THEN i2 + 1 ELSE i2
        stop  == scan_digits(s, start)
        run   == SubSeq(s, start, stop - 1)
        mag   == normalize(digit_values(run))
        bad   == \/ char_at(s, start) = "_"
                 \/ \E k \in 1..(Len(run) - 1) : run[k] = "_" /\ run[k + 1] = "_"
                 \/ (run # <<>> /\ run[Len(run)] = "_")
                 \/ stop = start
                 \/ skip_spaces(s, stop) <= Len(s)
    IN  IF bad THEN Raise("ValueError", "int")
        ELSE Ok([neg |-> neg /\ mag # <<>>, mag |-> mag])

(***************************************************************************)
(* The value types of ethereum.base_types, ethereum.crypto and             *)
(* ethereum.frontier.eth_types, which the module imports.                  *)
(***************************************************************************)
\* The byte types are plain bytes: constructing one returns the bytes given.
Bytes8(b) == Ok(b)

Bytes32(b) == Ok(b)

Hash32(b) == Ok(b)

Root(b) == Ok(b)

Bloom(b) == Ok(b)

Address(b) == Ok(b)

\* An unsigned integer of any size.
Uint(v) == IF v.neg THEN Raise("ValueError", "Uint") ELSE Ok(v)

\* An unsigned integer below 2^256 = 16^64: at most 64 digits of base 16.
U256(v) ==
    IF v.neg \/ Len(v.mag) > 64 THEN Raise("ValueError", "U256") ELSE Ok(v)

(***************************************************************************)
(* hexadecimal.py                                                          *)
(***************************************************************************)
has_hex_prefix(s) == startswith(s, <<"0", "x">>)

\* Each function below is preceded by a variant that differs from it by one
\* slip; the properties at the end tell each variant from the function.

\* hex_string.lstrip("0x"): drops every leading "0" and "x".
remove_hex_prefix_lstrip(s) ==
    LET k == CHOOSE k \in 0..Len(s) :
                /\ \A j \in 1..k : s[j] \in {"0", "x"}
                /\ (k < Len(s) => s[k + 1] \notin {"0", "x"})
    IN  slice_from(s, k)

\* The prefix is kept.
remove_hex_prefix_keeps(s) == s

remove_hex_prefix(s) ==
    IF has_hex_prefix(s) THEN slice_from(s, Len(<<"0", "x">>)) ELSE s

\* An odd number of digits is padded to an even one instead of refused.
hex_to_bytes_pads_odd(s) ==
    LET b == remove_hex_prefix(s)
    IN  fromhex(IF Len(b) % 2 = 1 THEN <<"0">> \o b ELSE b)

hex_to_bytes(s) == fromhex(remove_hex_prefix(s))

\* No padding.
hex_to_bytes8_unpadded(s) ==
    LET r == fromhex(remove_hex_prefix(s))
    IN  IF Raised(r) THEN r ELSE Bytes8(r.val)

hex_to_bytes8(s) ==
    LET r == fromhex(rjust(remove_hex_prefix(s), 16, "0"))
    IN  IF Raised(r) THEN r ELSE Bytes8(r.val)

\* Padding on the right.
hex_to_bytes32_pads_right(s) ==
    LET r == fromhex(rjust_pads_right(remove_hex_prefix(s), 64, "0"))
    IN  IF Raised(r) THEN r ELSE Bytes32(r.val)

hex_to_bytes32(s) ==
    LET r == fromhex(rjust(remove_hex_prefix(s), 64, "0"))
    IN  IF Raised(r) THEN r ELSE Bytes32(r.val)

\* Padding to 32 bytes, as hex_to_bytes32 does.
hex_to_hash_padded(s) ==
    LET r == fromhex(rjust(remove_hex_prefix(s), 64, "0"))
    IN  IF Raised(r) THEN r ELSE Hash32(r.val)

hex_to_hash(s) ==
    LET r == fromhex(remove_hex_prefix(s))
    IN  IF Raised(r) THEN r ELSE Hash32(r.val)

hex_to_root(s) ==
    LET r == fromhex(remove_hex_prefix(s))
    IN  IF Raised(r) THEN r ELSE Root(r.val)

hex_to_bloom(s) ==
    LET r == fromhex(remove_hex_prefix(s))
    IN  IF Raised(r) THEN r ELSE Bloom(r.val)

\* Oversize input cut to its last 40 digits.
hex_to_address_truncating(s) ==
    LET b == rjust(remove_hex_prefix(s), 40, "0")
        r == fromhex(SubSeq(b, Len(b) - 39, Len(b)))
    IN  IF Raised(r) THEN r ELSE Address(r.val)

hex_to_address(s) ==
    LET r == fromhex(rjust(remove_hex_prefix(s), 40, "0"))
    IN  IF Raised(r) THEN r ELSE Address(r.val)

\* The prefix is left to int to read.
hex_to_uint_keeps_prefix(s) ==
    LET r == int16(s)
    IN  IF Raised(r) THEN r ELSE Uint(r.val)

hex_to_uint(s) ==
    LET r == int16(remove_hex_prefix(s))
    IN  IF Raised(r) THEN r ELSE Uint(r.val)

\* The value is reduced modulo 2^256 before U256 sees it.
hex_to_u256_wrapping(s) ==
    LET r       == int16(remove_hex_prefix(s))
        low(m)  == SubSeq(m, IF Len(m) > 64 THEN Len(m) - 63 ELSE 1, Len(m))
    IN  IF Raised(r) THEN r
        ELSE U256([neg |-> r.val.neg, mag |-> normalize(low(r.val.mag))])

hex_to_u256(s) ==
    LET r == int16(remove_hex_prefix(s))
    IN  IF Raised(r) THEN r ELSE U256(r.val)

(***************************************************************************)
(* The inputs explored, and one action per function of the module.         *)
(***************************************************************************)
\* The digit counts the padded conversions pad to (lines 88, 173, 105).
PadWidths == {16, 40, 64}

Strings(n) == UNION {[1..k -> Alphabet] : k \in 0..n}

Prefixes == {<<>>, <<"0", "x">>}

ShortInputs == {p \o t : p \in Prefixes, t \in Strings(MaxLen)}

\* Lengths of the long runs: around each padding width.
FillLens == UNION {{w - 2, w - 1, w, w + 1} : w \in PadWidths}

LongInputs ==
    {p \o [i \in 1..n |-> c] \o t :
        p \in Prefixes, c \in FillDigits, n \in FillLens, t \in Strings(MaxTail)}

\* The inputs the documentation of the conversions gives as examples.
Examples ==
    { <<"0", "x", "g", "1">>,
      <<"0", "x", "a", "b", "c">>,
      <<"0", "x", "1", "2", "3", "4">>,
      <<"0", "x", "f", "f">>,
      <<"0", "x">> \o [i \in 1..64 |-> IF i % 2 = 1 THEN "a" ELSE "b"] }

Inputs == ShortInputs \cup LongInputs \cup Examples

Init ==
    /\ hex_string \in Inputs
    /\ arg = hex_string
    /\ called = "none"
    /\ depth = 0
    /\ result = Ok(<<>>)

Call(name, r) ==
    /\ called = "none"
    /\ called' = name
    /\ depth' = 1
    /\ result' = r
    /\ UNCHANGED <<hex_string, arg>>

call_has_hex_prefix == Call("has_hex_prefix", Ok(has_hex_prefix(arg)))

call_remove_hex_prefix == Call("remove_hex_prefix", Ok(remove_hex_prefix(arg)))

\* remove_hex_prefix applied to what remove_hex_prefix returned.
call_remove_hex_prefix_again ==
    /\ called = "remove_hex_prefix"
    /\ depth = 1
    /\ arg' = result.val
    /\ depth' = 2
    /\ result' = Ok(remove_hex_prefix(result.val))
    /\ UNCHANGED <<hex_string, called>>

call_hex_to_bytes == Call("hex_to_bytes", hex_to_bytes(arg))

call_hex_to_bytes8 == Call("hex_to_bytes8", hex_to_bytes8(arg))

call_hex_to_bytes32 == Call("hex_to_bytes32", hex_to_bytes32(arg))

call_hex_to_hash == Call("hex_to_hash", hex_to_hash(arg))

call_hex_to_root == Call("hex_to_root", hex_to_root(arg))

call_hex_to_bloom == Call("hex_to_bloom", hex_to_bloom(arg))

call_hex_to_address == Call("hex_to_address", hex_to_address(arg))

call_hex_to_uint == Call("hex_to_uint", hex_to_uint(arg))

call_hex_to_u256 == Call("hex_to_u256", hex_to_u256(arg))

Next ==
    \/ call_has_hex_prefix
    \/ call_remove_hex_prefix
    \/ call_remove_hex_prefix_again
    \/ call_hex_to_bytes
    \/ call_hex_to_bytes8
    \/ call_hex_to_bytes32
    \/ call_hex_to_hash
    \/ call_hex_to_root
    \/ call_hex_to_bloom
    \/ call_hex_to_address
    \/ call_hex_to_uint
    \/ call_hex_to_u256

Spec == Init /\ [][Next]_vars

(***************************************************************************)
(* Vocabulary of the properties, written independently of the operators    *)
(* above.                                                                  *)
(***************************************************************************)
HexChars ==
    {"0", "1", "2", "3", "4", "5", "6", "7", "8", "9",
     "a", "b", "c", "d", "e", "f", "A", "B", "C", "D", "E", "F"}

Whitespace == {" ", "\t", "\n", "\r", "\f"}

HexValueOf(c) ==
    CASE c = "0" -> 0  [] c = "1" -> 1  [] c = "2" -> 2  [] c = "3" -> 3
      [] c = "4" -> 4  [] c = "5" -> 5  [] c = "6" -> 6  [] c = "7" -> 7
      [] c = "8" -> 8  [] c = "9" -> 9
      [] c \in {"a", "A"} -> 10  [] c \in {"b", "B"} -> 11
      [] c \in {"c", "C"} -> 12  [] c \in {"d", "D"} -> 13
      [] c \in {"e", "E"} -> 14  [] c \in {"f", "F"} -> 15

AllHex(s) == \A i \in 1..Len(s) : s[i] \in HexChars

Prefixed(s) == Len(s) >= 2 /\ s[1] = "0" /\ s[2] = "x"

\* The string left after removing one leading "0x".
Body(s) == IF Prefixed(s) THEN [i \in 1..(Len(s) - 2) |-> s[i + 2]] ELSE s

\* The bytes an even-length string of hexadecimal digits denotes.
PairsOf(d) ==
    [j \in 1..(Len(d) \div 2) |-> 16 * HexValueOf(d[2 * j - 1]) + HexValueOf(d[2 * j])]

\* The w bytes holding the digits d right-aligned, zero digits before them.
RightAligned(d, w) ==
    LET pad == 2 * w - Len(d)
        nib(k) == IF k <= pad THEN 0 ELSE HexValueOf(d[k - pad])
    IN  [j \in 1..w |-> 16 * nib(2 * j - 1) + nib(2 * j)]

\* The characters of s not in the set skip, in order.
Without(s, skip) == SelectSeq(s, LAMBDA c : c \notin skip)

DecodeError(r) == r.exc = "ValueError" /\ r.at = "bytes.fromhex"

ParseError(r) == r.exc = "ValueError" /\ r.at = "int"

SameOutcome(r1, r2) ==
    /\ r1.exc = r2.exc
    /\ r1.at = r2.at
    /\ (r1.exc = "none" => r1.val = r2.val)

PaddedCalls == {"hex_to_bytes8", "hex_to_bytes32", "hex_to_address"}

\* Width in bytes of the value a padded conversion is named after.
WidthOf(name) ==
    CASE name = "hex_to_bytes8" -> 8
      [] name = "hex_to_bytes32" -> 32
      [] name = "hex_to_address" -> 20

(***************************************************************************)
(* C1                                                                      *)
(***************************************************************************)
\* C1, as stated: hex_to_bytes fails with a DecodeError, and returns no
\* bytes, whenever the string left after removing a leading "0x" has an odd
\* number of characters or contains a character that is no hexadecimal digit.
C1_FailsOnOddOrNonHex ==
    (called = "hex_to_bytes" /\ (Len(Body(arg)) % 2 = 1 \/ ~AllHex(Body(arg))))
        => (DecodeError(result) /\ result.val = <<>>)

\* C1, amended: hex_to_bytes fails with a DecodeError, and returns no bytes,
\* whenever the string left after removing a leading "0x" has, whitespace not
\* counted, an odd number of characters, or contains a character that is
\* neither a hexadecimal digit nor whitespace.
C1_FailsOnOddOrNonHexWhitespaceAside ==
    (/\ called = "hex_to_bytes"
     /\ \/ Len(Without(Body(arg), Whitespace)) % 2 = 1
        \/ ~AllHex(Without(Body(arg), Whitespace)))
        => (DecodeError(result) /\ result.val = <<>>)

\* An odd number of digits ("0xabc") has been refused.
C1_Witness ==
    /\ called = "hex_to_bytes"
    /\ arg = <<"0", "x", "a", "b", "c">>
    /\ DecodeError(result)

(***************************************************************************)
(* C2                                                                      *)
(***************************************************************************)
\* C2: for a padded conversion of width w and a string d of at most 2*w
\* hexadecimal digits, converting "0x"+d returns exactly w bytes: d
\* right-aligned, zero bytes before it.
C2_PaddingProperty ==
    (/\ called \in PaddedCalls
     /\ Prefixed(arg)
     /\ AllHex(Body(arg))
     /\ Len(Body(arg)) <= 2 * WidthOf(called))
        => /\ ~Raised(result)
           /\ Len(result.val) = WidthOf(called)
           /\ result.val = RightAligned(Body(arg), WidthOf(called))

\* hex_to_address("0x1234") has returned 18 zero bytes, then 0x12 0x34.
C2_Witness ==
    /\ called = "hex_to_address"
    /\ arg = <<"0", "x", "1", "2", "3", "4">>
    /\ result.val = [j \in 1..20 |-> IF j = 19 THEN 18 ELSE IF j = 20 THEN 52 ELSE 0]

(***************************************************************************)
(* C3                                                                      *)
(***************************************************************************)
\* C3, as stated: a padded conversion fails with a DecodeError if and only
\* if hex_to_bytes fails on the same input.
C3_PaddedFailsIffBaseFails ==
    called \in PaddedCalls => (DecodeError(result) <=> DecodeError(hex_to_bytes(arg)))

\* C3, amended: the padded conversions decode the string left after removing
\* the prefix once it is left-padded with "0" to 2*width characters.  When
\* that string has 2*width characters or more they fail if and only if
\* hex_to_bytes fails on the same input; when it is shorter and made of
\* hexadecimal digits they never fail, an odd number of digits included; and
\* they fail whenever it contains a character that is neither a hexadecimal
\* digit nor whitespace.
C3_PaddedFailsAsBaseOnPaddedString ==
    called \in PaddedCalls =>
        /\ Len(Body(arg)) >= 2 * WidthOf(called)
              => (DecodeError(result) <=> DecodeError(hex_to_bytes(arg)))
        /\ (Len(Body(arg)) < 2 * WidthOf(called) /\ AllHex(Body(arg)))
              => ~Raised(result)
        /\ ~AllHex(Without(Body(arg), Whitespace)) => DecodeError(result)

\* An odd number of digits, which hex_to_bytes refuses, has been padded and
\* decoded by hex_to_bytes8.
C3_Witness ==
    /\ called = "hex_to_bytes8"
    /\ arg = <<"0", "x", "a", "b", "c">>
    /\ DecodeError(hex_to_bytes(arg))
    /\ result.val = <<0, 0, 0, 0, 0, 0, 10, 188>>

(***************************************************************************)
(* C4                                                                      *)
(***************************************************************************)
\* C4, as stated: remove_hex_prefix is idempotent: applied to its own result
\* it returns that result unchanged.
C4_Idempotent ==
    (called = "remove_hex_prefix" /\ depth = 2) => result.val = arg

\* C4, amended: remove_hex_prefix(remove_hex_prefix(s)) = remove_hex_prefix(s)
\* for every s that does not begin with "0x0x", and for no other s.
C4_IdempotentUnlessDoublePrefix ==
    (called = "remove_hex_prefix" /\ depth = 2)
        => (result.val = arg <=> ~(Prefixed(hex_string) /\ Prefixed(Body(hex_string))))

\* The second application has returned the prefix-free result of the first.
C4_Witness ==
    /\ called = "remove_hex_prefix"
    /\ depth = 2
    /\ hex_string = <<"0", "x", "a", "F">>
    /\ arg = <<"a", "F">>
    /\ result.val = <<"a", "F">>

(***************************************************************************)
(* C5                                                                      *)
(***************************************************************************)
\* The digits of a literal: hexadecimal digits, which single "_" may separate.
DigitGroup(c) ==
    /\ Len(c) >= 1
    /\ \A i \in 1..Len(c) : c[i] \in HexChars \cup {"_"}
    /\ c[1] \in HexChars
    /\ c[Len(c)] \in HexChars
    /\ \A i \in 1..(Len(c) - 1) : ~(c[i] = "_" /\ c[i + 1] = "_")

\* Digits, or "0x" / "0X", an optional "_", and digits.
PrefixedLiteral(r) ==
    \/ DigitGroup(r)
    \/ /\ Len(r) >= 3
       /\ r[1] = "0"
       /\ r[2] \in {"x", "X"}
       /\ \/ DigitGroup(SubSeq(r, 3, Len(r)))
          \/ (r[3] = "_" /\ DigitGroup(SubSeq(r, 4, Len(r))))

\* An optional sign and a literal.
SignedLiteral(m) ==
    /\ Len(m) >= 1
    /\ IF m[1] \in {"+", "-"} THEN PrefixedLiteral(SubSeq(m, 2, Len(m)))
       ELSE PrefixedLiteral(m)

\* The integer literals of base 16: a signed literal within whitespace.
IntLiteral(b) ==
    \E a \in 0..Len(b), z \in 0..Len(b) :
        /\ a <= z
        /\ \A i \in 1..a : b[i] \in Whitespace
        /\ \A i \in (z + 1)..Len(b) : b[i] \in Whitespace
        /\ SignedLiteral(SubSeq(b, a + 1, z))

\* The digits of a number, most significant first, without leading zeros.
StripZeros(m) ==
    IF \A i \in 1..Len(m) : m[i] = 0 THEN <<>>
    ELSE LET first == CHOOSE k \in 1..Len(m) : m[k] # 0 /\ \A j \in 1..(k - 1) : m[j] = 0
         IN  [i \in 1..(Len(m) - first + 1) |-> m[first + i - 1]]

\* The number a literal denotes: its hexadecimal digits in order (the "0" of
\* a "0x" is a leading zero).
LiteralDigits(b) ==
    LET hs == SelectSeq(b, LAMBDA c : c \in HexChars)
    IN  StripZeros([i \in 1..Len(hs) |-> HexValueOf(hs[i])])

\* The number written by at most seven digits of base 16.
RECURSIVE NumberOf(_)
NumberOf(m) ==
    IF m = <<>> THEN 0 ELSE 16 * NumberOf(SubSeq(m, 1, Len(m) - 1)) + m[Len(m)]

\* C5, as stated: hex_to_uint fails with a ParseError if the string left
\* after removing one leading "0x" is empty or contains a character that is
\* no hexadecimal digit, and succeeds only on a non-empty string of
\* hexadecimal digits, returning its base-16 value.  (Any failure of the
\* call is counted as the failure the claim asks for.)
C5_FailsUnlessHexDigits ==
    called = "hex_to_uint" =>
        IF Body(arg) = <<>> \/ ~AllHex(Body(arg))
        THEN Raised(result)
        ELSE ~Raised(result) /\ result.val.mag = LiteralDigits(Body(arg))

\* C5, amended: hex_to_uint fails with a ParseError exactly when the string
\* left after removing one leading "0x" is not an integer literal of base 16:
\* optional whitespace around it, an optional sign, an optional "0x" or "0X"
\* (and one "_"), then hexadecimal digits which single "_" may separate.  So
\* it fails on the empty string and on every string holding a character that
\* is none of a hexadecimal digit, whitespace, "+", "-", "_", "x", "X"; and
\* on a non-empty string of hexadecimal digits it succeeds and returns the
\* base-16 value ("0xff" gives 255), as it does for every literal without
\* a "-" sign.
C5_FailsUnlessIntLiteral ==
    called = "hex_to_uint" =>
        /\ ParseError(result) <=> ~IntLiteral(Body(arg))
        /\ (Body(arg) # <<>> /\ AllHex(Body(arg))) =>
              (~Raised(result) /\ result.val.mag = LiteralDigits(Body(arg)))
        /\ (\E i \in 1..Len(Body(arg)) :
                Body(arg)[i] \notin HexChars \cup Whitespace \cup {"+", "-", "_", "x", "X"})
              => ParseError(result)
        /\ (IntLiteral(Body(arg)) /\ "-" \notin {Body(arg)[i] : i \in 1..Len(Body(arg))})
              => /\ ~Raised(result)
                 /\ result.val = [neg |-> FALSE, mag |-> LiteralDigits(Body(arg))]
        /\ arg = <<"0", "x", "f", "f">> => NumberOf(result.val.mag) = 255

\* hex_to_uint("0xff") has returned 255.
C5_Witness ==
    /\ called = "hex_to_uint"
    /\ arg = <<"0", "x", "f", "f">>
    /\ ~Raised(result)
    /\ NumberOf(result.val.mag) = 255

(***************************************************************************)
(* C6                                                                      *)
(***************************************************************************)
\* C6: for an even-length string s of hexadecimal digits, hex_to_bytes
\* returns the same for "0x"+s as for s: exactly len(s)/2 bytes, byte i being
\* the value of the i-th pair of digits of s.
C6_PrefixInsensitiveAndExact ==
    (/\ called = "hex_to_bytes"
     /\ AllHex(Body(arg))
     /\ Len(Body(arg)) % 2 = 0)
        => /\ ~Raised(result)
           /\ Len(result.val) = Len(Body(arg)) \div 2
           /\ \A i \in 1..Len(result.val) :
                 result.val[i] = 16 * HexValueOf(Body(arg)[2 * i - 1])
                                    + HexValueOf(Body(arg)[2 * i])
           /\ SameOutcome(result, hex_to_bytes(Body(arg)))
           /\ SameOutcome(result, hex_to_bytes(<<"0", "x">> \o Body(arg)))

\* hex_to_bytes("0x1234") has returned the two bytes 0x12 0x34.
C6_Witness ==
    /\ called = "hex_to_bytes"
    /\ arg = <<"0", "x", "1", "2", "3", "4">>
    /\ result.val = <<18, 52>>

(***************************************************************************)
(* C7                                                                      *)
(***************************************************************************)
UnpaddedCalls == {"hex_to_hash", "hex_to_root", "hex_to_bloom"}

C8_U256ParsesAsUint ==
    called = "hex_to_u256" =>
        /\ ParseError(result) <=> ParseError(hex_to_uint(arg))
        /\ ~Raised(hex_to_uint(arg)) =>
              IF Len(hex_to_uint(arg).val.mag) <= 64
              THEN SameOutcome(result, hex_to_uint(arg))
              ELSE result.exc = "ValueError" /\ result.at = "U256"
        /\ ~Raised(result) => result.val.mag = LiteralDigits(Body(arg))

\* A value of 65 digits was parsed and then refused by U256.
C8_Witness ==
    /\ called = "hex_to_u256"
    /\ Len(arg) = 65
    /\ ~Raised(hex_to_uint(arg))
    /\ result.at = "U256"

BigEndianValue(b) ==
    StripZeros([k \in 1..(2 * Len(b)) |->
                   IF k % 2 = 1 THEN b[(k + 1) \div 2] \div 16 ELSE b[k \div 2] % 16])

\* C10: for a non-empty string d of at most 2*w hexadecimal digits, odd or
\* even in number, with or without a leading "0x", hex_to_uint(d) is the
\* big-endian unsigned value of the w bytes the padded conversion of width w
\* returns for d.
C10_UintAgreesWithPaddedBytes ==
    (/\ called \in PaddedCalls
     /\ Body(arg) # <<>>
     /\ AllHex(Body(arg))
     /\ Len(Body(arg)) <= 2 * WidthOf(called))
        => /\ ~Raised(result)
           /\ ~Raised(hex_to_uint(arg))
           /\ hex_to_uint(arg).val.neg = FALSE
           /\ hex_to_uint(arg).val.mag = BigEndianValue(result.val)

\* 63 digits without a prefix: hex_to_bytes32 has returned 32 bytes of the
\* value hex_to_uint returns.
C10_Witness ==
    /\ called = "hex_to_bytes32"
    /\ Len(arg) = 63
    /\ AllHex(arg)
    /\ Len(result.val) = 32
    /\ Len(hex_to_uint(arg).val.mag) = 63

====
